---------------------------- MODULE Spec2Model ----------------------------
(* IIIF_downloader_gui: the tiling / fetch / assemble pipeline of          *)
(* src/iiif_downloader_gui.py (class IIIFDownloaderApp).                    *)
(*                                                                          *)
(* Spec      the program as Tk runs it: start_download and cancel_download  *)
(*           behind their buttons, the download_image thread, the workers   *)
(*           of the ThreadPoolExecutor running download_one, and the        *)
(*           widget updates the ending thread defers with root.after.       *)
(* SpecFair  Spec with the fairness of the thread scheduler.                 *)
(* SpecPlan  build_region_urls as a pure function of its four numbers.      *)
(* SpecGeom  get_tile_spec and respect_max_area as pure functions.          *)
(* SpecUrl   normalize_url as a pure function, applied repeatedly.          *)
EXTENDS Integers, Sequences, FiniteSets, TLC

VARIABLES
    is_downloading,  \* self.is_downloading
    cancel_flag,     \* self.cancel_flag
    pc,              \* position of the download_image thread in lines 339-476
                     \* ("idle": no thread is there)
    workers,         \* workers = self.workers_var.get()
    info,            \* the descriptor returned by fetch_info_json (NoInfo before)
    tile,            \* <<tile_w, tile_h, overlap>> after respect_max_area
    urls,            \* the list build_region_urls returned (the boxes of it)
    canvas,          \* the RGBA canvas: pixel -> colour, Transparent initially
    writes,          \* per pixel, how many times canvas.paste wrote it
    downloaded,      \* the local counter downloaded
    total,           \* the local total = len(urls)
    future,          \* future_to_url: index in urls -> the state of its future
    yielded,         \* the indices as_completed has yielded so far, in order
    cur,             \* the index of the future bound by the for statement (0: none)
    pasted,          \* the indices composited onto the canvas, in order
    tile_errors,     \* the indices logged by "Error downloading tile", in order
    exc,             \* the exception propagating in download_image ("none" if none)
    broke,           \* the drain loop was left by the break of line 400
    save_started,    \* lines 433-451 have been entered
    saved,           \* the output file has been written completely
    progress,        \* the last value given to update_progress / the progress bar
    outcome,         \* the terminal status reported by the run ("none" so far)
    plan_in,         \* SpecPlan: <<width, height, tile_w, tile_h>>
    plan_out,        \* SpecPlan: the value build_region_urls returned
    plan_called,     \* SpecPlan: build_region_urls has returned
    geom_in,         \* SpecGeom: <<info, custom_tile>>
    geom_out,        \* SpecGeom: what get_tile_spec and respect_max_area returned
    geom_called,     \* SpecGeom: both have been called
    norm_in,         \* SpecUrl: the url given to normalize_url
    norm_out,        \* SpecUrl: the results of the successive calls
    download_button, \* state of self.download_button
    cancel_button,   \* state of self.cancel_button
    ui_queue,        \* callbacks of lines 477-478 given to root.after, not yet run
    to_post          \* per thread that is past line 476: the lines it has yet to run

vars == <<is_downloading, cancel_flag, pc, workers, info, tile, urls, canvas,
          writes, downloaded, total, future, yielded, cur, pasted, tile_errors,
          exc, broke, save_started, saved, progress, outcome,
          plan_in, plan_out, plan_called, geom_in, geom_out, geom_called,
          norm_in, norm_out, download_button, cancel_button, ui_queue, to_post>>

\* the buttons, the deferred callbacks and the threads that are ending
uiVars == <<download_button, cancel_button, ui_queue, to_post>>

runVars == <<is_downloading, cancel_flag, pc, workers, info, tile, urls, canvas,
             writes, downloaded, total, future, yielded, cur, pasted,
             tile_errors, exc, broke, save_started, saved, progress, outcome,
             uiVars>>

planVars == <<plan_in, plan_out, plan_called>>

geomVars == <<geom_in, geom_out, geom_called>>

urlVars == <<norm_in, norm_out>>

\* the variables of the pure-function specifications: no step of a run changes them
pureVars == <<planVars, geomVars, urlVars>>

-----------------------------------------------------------------------------
(* Bounds of the model and constants of the program.                        *)

MaxWidth == 3        \* descriptor widths of Spec are 1..MaxWidth
MaxHeight == 2       \* descriptor heights of Spec are 1..MaxHeight
MaxWorkers == 2      \* concurrency budgets of Spec are 1..MaxWorkers (program: 1..16)
MaxDim == 5          \* SpecPlan draws each of its four numbers from 1..MaxDim

DefaultTile == 1024  \* custom_tile = 1024
FallbackTile == 512  \* ... or 512
Transparent == 0     \* Image.new("RGBA", ...) is all zero: fully transparent

AdvertisedSides == {1, 2}\* tile sides the descriptors of Spec advertise

Min(a, b) == IF a <= b THEN a ELSE b
Max(a, b) == IF a >= b THEN a ELSE b

RECURSIVE SumOver(_, _)
SumOver(f, S) ==
    IF S = {} THEN 0
    ELSE LET e == CHOOSE e \in S : TRUE IN f[e] + SumOver(f, S \ {e})

Range(s) == {s[k] : k \in 1..Len(s)}

-----------------------------------------------------------------------------
(* Python floats. max_area / area, math.sqrt, tile_w * scale (lines 228-229) *)
(* and (downloaded / total) * 100 (line 415) are IEEE 754 double operations, *)
(* each rounded to the nearest double, ties to even. A positive double is    *)
(* [m, e]: the value m * 2^e with 2^52 <= m < 2^53. m and the other whole    *)
(* numbers too long for an integer of this module are written in base 2^15,  *)
(* lowest digit first, in five digits (75 bits).                             *)

Limb == 32768

Abs(a) == IF a < 0 THEN 0 - a ELSE a

BigOne == <<1, 0, 0, 0, 0>>

\* 2 * a + bit
BigDouble(a, bit) ==
    LET c1 == 2 * a[1] + bit
        c2 == 2 * a[2] + (c1 \div Limb)
        c3 == 2 * a[3] + (c2 \div Limb)
        c4 == 2 * a[4] + (c3 \div Limb)
        c5 == 2 * a[5] + (c4 \div Limb)
    IN  <<c1 % Limb, c2 % Limb, c3 % Limb, c4 % Limb, c5 % Limb>>

\* a + n, for 0 <= n < Limb
BigPlus(a, n) ==
    LET c1 == a[1] + n
        c2 == a[2] + (c1 \div Limb)
        c3 == a[3] + (c2 \div Limb)
        c4 == a[4] + (c3 \div Limb)
        c5 == a[5] + (c4 \div Limb)
    IN  <<c1 % Limb, c2 % Limb, c3 % Limb, c4 % Limb, c5 % Limb>>

\* a - b, for a >= b
BigMinus(a, b) ==
    LET d1 == a[1] - b[1]
        d2 == a[2] - b[2] - (IF d1 < 0 THEN 1 ELSE 0)
        d3 == a[3] - b[3] - (IF d2 < 0 THEN 1 ELSE 0)
        d4 == a[4] - b[4] - (IF d3 < 0 THEN 1 ELSE 0)
        d5 == a[5] - b[5] - (IF d4 < 0 THEN 1 ELSE 0)
    IN  <<d1 % Limb, d2 % Limb, d3 % Limb, d4 % Limb, d5 % Limb>>

\* a * t, for 0 <= t < Limb
BigTimes(a, t) ==
    LET c1 == a[1] * t
        c2 == a[2] * t + (c1 \div Limb)
        c3 == a[3] * t + (c2 \div Limb)
        c4 == a[4] * t + (c3 \div Limb)
        c5 == a[5] * t + (c4 \div Limb)
    IN  <<c1 % Limb, c2 % Limb, c3 % Limb, c4 % Limb, c5 % Limb>>

\* a < b
BigLess(a, b) ==
    \E i \in 1..5 : a[i] < b[i] /\ \A j \in (i + 1)..5 : a[j] = b[j]

\* bit i of a, bit 0 the lowest
BigBit(a, i) == (a[(i \div 15) + 1] \div (2 ^ (i % 15))) % 2

\* the number of bits of a, for a > 0
BigLen(a) ==
    LET h == CHOOSE i \in 1..5 : a[i] # 0 /\ \A j \in (i + 1)..5 : a[j] = 0
        n == CHOOSE k \in 1..15 : 2 ^ (k - 1) <= a[h] /\ a[h] < 2 ^ k
    IN  15 * (h - 1) + n

\* a with its k lowest bits dropped: floor(a / 2^k)
BigShift(a, k) ==
    LET q == k \div 15
        r == k % 15
        x == [i \in 1..6 |-> IF i + q <= 5 THEN a[i + q] ELSE 0]
    IN  [i \in 1..5 |-> (x[i] \div (2 ^ r)) + (x[i + 1] % (2 ^ r)) * (2 ^ (15 - r))]

\* a as an integer, for a < 2^31
BigInt(a) == a[1] + Limb * a[2] + Limb * Limb * a[3]

\* the one element of a set of one
the(S) == CHOOSE v \in S : TRUE

\* the position of the first 1 after the binary point of r / a and the rest
\* of the long division after it, for 0 < r < a
RECURSIVE FirstBit(_, _, _)
FirstBit(r, a, k) ==
    IF 2 * r >= a THEN <<2 * r - a, k + 1>> ELSE FirstBit(2 * r, a, k + 1)

\* one more bit of the long division by a: st is <<quotient, remainder>>
DivBit(a, st) ==
    IF 2 * st[2] >= a
    THEN <<BigDouble(st[1], 1), 2 * st[2] - a>>
    ELSE <<BigDouble(st[1], 0), 2 * st[2]>>

\* n more bits of it (the first half of them, then the rest)
RECURSIVE DivBits(_, _, _)
DivBits(a, n, st) ==
    IF n = 0 THEN st
    ELSE IF n = 1 THEN DivBit(a, st)
    ELSE the({DivBits(a, n - (n \div 2), half) : half \in {DivBits(a, n \div 2, st)}})

\* the quotient q with remainder r of the division by a, rounded to nearest,
\* ties to even
div_round(q, r, a) ==
    IF 2 * r > a \/ (2 * r = a /\ q[1] % 2 = 1) THEN BigPlus(q, 1) ELSE q

\* the 53 bits of the quotient from its first 1 on, rounded
div_from(a, first) ==
    the({[m |-> div_round(bits[1], bits[2], a), e |-> 0 - (first[2] + 52)] :
            bits \in {DivBits(a, 52, <<BigOne, first[1]>>)}})

\* the double n / a of Python for integers 1 <= n <= a < 2^30
fdiv(n, a) ==
    IF n = a THEN [m |-> <<0, 0, 0, 128, 0>>, e |-> 0 - 52]
    ELSE the({div_from(a, first) : first \in {FirstBit(n, a, 0)}})

\* bit i of m * 2^s
shifted_bit(m, s, i) == IF i >= s THEN BigBit(m, i - s) ELSE 0

\* the next digit of the root: 1 when the trial fits in the remainder
sqrt_step(root, rem, trial) ==
    IF BigLess(rem, trial)
    THEN <<BigDouble(root, 0), rem>>
    ELSE <<BigDouble(root, 1), BigMinus(rem, trial)>>

\* the binary square root by digits, step j of 53: st is <<root, rem>> after
\* the pairs of bits of n above pair j, where n is m * 2^s seen as 106 bits
SqrtBit(m, s, j, st) ==
    the({sqrt_step(st[1], rem, trial) :
            rem \in {BigDouble(BigDouble(st[2], shifted_bit(m, s, 107 - 2 * j)),
                               shifted_bit(m, s, 106 - 2 * j))},
            trial \in {BigDouble(BigDouble(st[1], 0), 1)}})

\* steps j to k of it (the first half of them, then the rest)
RECURSIVE SqrtBits(_, _, _, _, _)
SqrtBits(m, s, j, k, st) ==
    IF j = k THEN SqrtBit(m, s, j, st)
    ELSE the({SqrtBits(m, s, ((j + k) \div 2) + 1, k, half) :
                half \in {SqrtBits(m, s, j, (j + k) \div 2, st)}})

\* the root with remainder rem, rounded to nearest
sqrt_round(root, rem) == IF BigLess(root, rem) THEN BigPlus(root, 1) ELSE root

\* x.m * 2^sqrt_shift(x) has 105 or 106 bits and an even exponent
sqrt_shift(x) == IF (x.e - 52) % 2 = 0 THEN 52 ELSE 53

\* math.sqrt(x) for a double 0 < x <= 1
fsqrt(x) ==
    the({[m |-> sqrt_round(st[1], st[2]), e |-> (x.e - sqrt_shift(x)) \div 2] :
            st \in {SqrtBits(x.m, sqrt_shift(x), 1, 53,
                             <<<<0, 0, 0, 0, 0>>, <<0, 0, 0, 0, 0>>>>)}})

\* p without its d lowest bits, rounded to nearest, ties to even
shift_round(p, d) ==
    the({IF d > 0 /\ (2 * low > 2 ^ d \/ (2 * low = 2 ^ d /\ qf[1] % 2 = 1))
         THEN BigPlus(qf, 1) ELSE qf :
            qf \in {BigShift(p, d)}, low \in {p[1] % (2 ^ d)}})

\* the whole part of p * 2^e, p rounded to 53 bits first
int_of(p, e) ==
    the({BigInt(BigShift(shift_round(p, d), 0 - (e + d))) : d \in {BigLen(p) - 53}})

\* int(t * x) for an integer 1 <= t < 2^15 and a double 0 < x <= 1: the
\* product is rounded to a double, and int() drops its fraction
int_times(t, x) == the({int_of(p, x.e) : p \in {BigTimes(x.m, t)}})

-----------------------------------------------------------------------------
(* build_region_urls, lines 231-252. A list entry (url, (x, y, w, h)) is    *)
(* modelled by its box: the url is an injective function of the box.        *)

Box(x, y, w, h) == [x |-> x, y |-> y, w |-> w, h |-> h]

\* (mutant of RowLoop: the step is one short of the tile width)
RECURSIVE RowLoopOverlap(_, _, _, _, _, _)
RowLoopOverlap(x, y, h, width, tile_w, acc) ==
    IF x < width
    THEN RowLoopOverlap(x + Max(1, tile_w - 1), y, h, width, tile_w,
                        Append(acc, Box(x, y, Min(tile_w, width - x), h)))
    ELSE acc

\* the inner loop, lines 245-250, started at x with the row's y and h
RECURSIVE RowLoop(_, _, _, _, _, _)
RowLoop(x, y, h, width, tile_w, acc) ==
    IF x < width
    THEN RowLoop(x + tile_w, y, h, width, tile_w,
                 Append(acc, Box(x, y, Min(tile_w, width - x), h)))
    ELSE acc

\* the outer loop, lines 242-251
RECURSIVE ColLoop(_, _, _, _, _, _)
ColLoop(y, width, height, tile_w, tile_h, acc) ==
    IF y < height
    THEN ColLoop(y + tile_h, width, height, tile_w, tile_h,
                 RowLoop(0, y, Min(tile_h, height - y), width, tile_w, acc))
    ELSE acc

build_region_urls(width, height, tile_w, tile_h) ==
    ColLoop(0, width, height, tile_w, tile_h, <<>>)

\* the inputs on which the loops of lines 242-251 never end: x, or y, does
\* not advance (build_region_urls is defined on the others)
never_returns(width, height, tile_w, tile_h) ==
    /\ height > 0
    /\ \/ width > 0 /\ tile_w <= 0
       \/ tile_h <= 0

-----------------------------------------------------------------------------
(* Descriptors. info is the parsed JSON of info.json; of its keys the code  *)
(* reads width, height, tiles and maxArea. A key that is absent, null or 0  *)
(* is modelled by 0: `info.get(k) or d` and `if not v` treat the three      *)
(* alike; width and height, which int() reads (lines 357-358), are Absent  *)
(* when missing or no number. A tile spec has the keys width, tileWidth,    *)
(* height, tileHeight,                                                      *)
(* overlap and scaleFactors (a set; absent is the empty set).               *)

TileSpec(w, tw, h, th, o, sfs) ==
    [width |-> w, tileWidth |-> tw, height |-> h, tileHeight |-> th,
     overlap |-> o, scaleFactors |-> sfs]

Info(w, h, ts, m) == [width |-> w, height |-> h, tiles |-> ts, maxArea |-> m]

\* info['width'] or info['height'] for which int(info[...]), lines 357-358,
\* raises: the key is missing (KeyError) or its value is no number (ValueError)
Absent == 0 - 1000

NoInfo == Info(0, 0, <<>>, 0)

\* `a or b` of Python on numbers where 0 stands for every falsy value
Or(a, b) == IF a # 0 THEN a ELSE b

\* (mutant of chosen_spec: the loop of line 203 has no break)
chosen_spec_last(tiles) ==
    LET hits == {k \in 1..Len(tiles) : 1 \in tiles[k].scaleFactors}
    IN  IF hits # {}
        THEN tiles[CHOOSE k \in hits : \A j \in hits : k >= j]
        ELSE tiles[1]

\* lines 203-209: the first spec whose scaleFactors hold 1, else the first
chosen_spec(tiles) ==
    LET hits == {k \in 1..Len(tiles) : 1 \in tiles[k].scaleFactors}
    IN  IF hits # {}
        THEN tiles[CHOOSE k \in hits : \A j \in hits : k <= j]
        ELSE tiles[1]

\* get_tile_spec, lines 195-218; custom_tile is 0 for tile_var = "auto"
get_tile_spec(inf, custom_tile) ==
    IF Len(inf.tiles) > 0
    THEN LET chosen == chosen_spec(inf.tiles)
             tw == Or(chosen.width, Or(chosen.tileWidth, FallbackTile))
             th == Or(chosen.height, Or(chosen.tileHeight, tw))
         IN  <<tw, th, Or(chosen.overlap, 0)>>
    ELSE LET c == IF custom_tile = 0 THEN DefaultTile ELSE custom_tile
         IN  <<c, c, 0>>

\* scale = math.sqrt(max_area / area), line 228, for 1 <= max_area < area < 2^30
scale_of(max_area, area) == fsqrt(fdiv(max_area, area))

\* int(t * scale), line 229, for |t| < 2^15; int() rounds towards zero
ScaledDown(t, scale) ==
    LET f == int_times(Abs(t), scale)
    IN  IF t < 0 THEN 0 - f ELSE f

\* respect_max_area, lines 220-229, for max_area >= 0 (0: absent)
respect_max_area(inf, tile_w, tile_h) ==
    IF inf.maxArea = 0 THEN <<tile_w, tile_h>>
    ELSE IF tile_w * tile_h <= inf.maxArea THEN <<tile_w, tile_h>>
    ELSE the({<<Max(1, ScaledDown(tile_w, scale)), Max(1, ScaledDown(tile_h, scale))>> :
                scale \in {scale_of(inf.maxArea, tile_w * tile_h)}})

\* lines 364-365 and 374: the tile geometry and the regions of a descriptor
tile_of(inf, custom_tile) ==
    the({respect_max_area(inf, ts[1], ts[2]) \o <<ts[3]>> :
            ts \in {get_tile_spec(inf, custom_tile)}})

regions_of(inf, custom_tile) ==
    the({build_region_urls(inf.width, inf.height, t[1], t[2]) :
            t \in {tile_of(inf, custom_tile)}})

-----------------------------------------------------------------------------
(* Images. A decoded tile is [w, h, ow, oh]: its size and the extent of its *)
(* opaque part (the rest has alpha 0); all opaque pixels of the tile of     *)
(* urls[k] have the colour k. A JPEG converted to RGBA is opaque all over.  *)
(* The server answers a region request with an image of the region's size   *)
(* or a larger one (the IIIF contract for size "full").                     *)

Image(w, h, ow, oh) == [w |-> w, h |-> h, ow |-> ow, oh |-> oh]

TileColour(k) == k

\* Image.new("RGBA", (width, height)), line 380
new_canvas(width, height) ==
    [p \in (0..(width - 1)) \X (0..(height - 1)) |-> Transparent]

\* (mutant of crop: the decoded image is pasted as it came)
no_crop(img, w, h) == img

\* img.crop((0, 0, w, h)), lines 408-409: pixels outside the source are transparent
crop(img, w, h) ==
    IF <<img.w, img.h>> # <<w, h>>
    THEN Image(w, h, Min(img.ow, w), Min(img.oh, h))
    ELSE img

\* (mutant of paste_area: the box (x, y) of the paste is dropped)
paste_area_origin(cv, img, x, y) ==
    {p \in DOMAIN cv : p[1] < img.ow /\ p[2] < img.oh}

\* the pixels canvas.paste(img, (x, y), img) writes: the opaque ones, clipped
paste_area(cv, img, x, y) ==
    {p \in DOMAIN cv : /\ x <= p[1] /\ p[1] < x + img.ow
                       /\ y <= p[2] /\ p[2] < y + img.oh}

\* canvas.paste(img, (x, y), img), line 412
paste(cv, img, x, y, colour) ==
    [p \in DOMAIN cv |-> IF p \in paste_area(cv, img, x, y) THEN colour ELSE cv[p]]

\* the pixels of a box
box_area(b) == {p \in (b.x..(b.x + b.w - 1)) \X (b.y..(b.y + b.h - 1)) : TRUE}

-----------------------------------------------------------------------------
(* Futures of the ThreadPoolExecutor. st is "new" (not submitted), "queued" *)
(* (a work item in the pool's queue), "running" (download_one is running on *)
(* a pool thread: its request is in flight), "image" (download_one          *)
(* returned img) or "error" (download_one raised).                          *)

Fut(st, img) == [st |-> st, img |-> img]
NoImage == Image(0, 0, 0, 0)

Indices == DOMAIN urls
Done(k) == future[k].st \in {"image", "error"}
InFlight == {k \in Indices : future[k].st = "running"}
Queued == {k \in Indices : future[k].st = "queued"}
Submitted == {k \in Indices : future[k].st # "new"}

\* the server's answers to the request for box b
Responses(b) == {Image(b.w, b.h, b.w, b.h), Image(b.w + 1, b.h + 1, b.w + 1, b.h + 1)}

-----------------------------------------------------------------------------
(* The steps of the loop body, lines 402-426.                               *)

\* (mutants of abort_on_error: a tile failure never aborts; always aborts)
abort_never(d) == FALSE
abort_always(d) == TRUE

\* line 425: `if downloaded == 0`
abort_on_error(d) == d = 0

\* lines 408-412 applied to the canvas and to the write counts
composite(cv, k) ==
    LET b == urls[k]
    IN  paste(cv, crop(future[k].img, b.w, b.h), b.x, b.y, TileColour(k))

count_writes(wr, k) ==
    LET b == urls[k]
        area == paste_area(wr, crop(future[k].img, b.w, b.h), b.x, b.y)
    IN  [p \in DOMAIN wr |-> IF p \in area THEN wr[p] + 1 ELSE wr[p]]

\* (mutant of percent: the tile being handled is counted twice)
percent_ahead(d, t) == ((d + 1) * 100) \div t

\* (downloaded / total) * 100, line 415, for 1 <= downloaded <= total: the
\* whole part of the double given to update_progress
percent(d, t) == int_times(100, fdiv(d, t))

-----------------------------------------------------------------------------
(* Inputs of Spec.                                                          *)

MaxRegions == 3      \* descriptors of Spec plan at most MaxRegions regions
MaxEnding == 2       \* a click on Download is tried with fewer than MaxEnding
                     \* threads past line 476 that have not ended yet
MinCustom == 64      \* the smallest custom tile size validate_inputs accepts

\* line 415 for every total of Spec: percent_of[total][downloaded]
percent_of == [t \in 1..MaxRegions |-> [d \in 1..t |-> percent(d, t)]]

TileInputs ==
    {<<>>} \cup {<<TileSpec(s, 0, 0, 0, 0, {1})>> : s \in AdvertisedSides}

CustomInputs == {0, MinCustom}

\* descriptors with positive sizes and positive advertised tiles
SizedDescriptors ==
    {d \in {Info(w, h, ts, 0) : w \in 1..MaxWidth, h \in 1..MaxHeight, ts \in TileInputs} :
        Len(regions_of(d, 0)) <= MaxRegions}

\* width or height missing, not a number, negative or zero
BadSizes == {Absent, 0 - 1, 0}

UnsizedDescriptors ==
    {Info(w, 1, <<>>, 0) : w \in BadSizes} \cup {Info(1, h, <<>>, 0) : h \in BadSizes}

\* an advertised tile with a negative side: with positive sizes and a
\* negative tile width, and with width 0 and a negative tile height
NegativeTileDescriptors ==
    {Info(w, h, <<TileSpec(0 - 2, 0, 0, 0, 0, {1})>>, 0) : w \in 1..MaxWidth, h \in 1..MaxHeight}
        \cup {Info(0, h, <<TileSpec(1, 0, 0 - 2, 0, 0, {1})>>, 0) : h \in 1..MaxHeight}

Descriptors == SizedDescriptors \cup UnsizedDescriptors \cup NegativeTileDescriptors

-----------------------------------------------------------------------------
(* The run state machine.                                                   *)

\* __init__, lines 43-44; no download_image thread exists
RunInit ==
    /\ is_downloading = FALSE
    /\ cancel_flag = FALSE
    /\ pc = "idle"
    /\ workers = 0
    /\ info = NoInfo
    /\ tile = <<0, 0, 0>>
    /\ urls = <<>>
    /\ canvas = new_canvas(0, 0)
    /\ writes = new_canvas(0, 0)
    /\ downloaded = 0
    /\ total = 0
    /\ future = <<>>
    /\ yielded = <<>>
    /\ cur = 0
    /\ pasted = <<>>
    /\ tile_errors = <<>>
    /\ exc = "none"
    /\ broke = FALSE
    /\ save_started = FALSE
    /\ saved = FALSE
    /\ progress = 0
    /\ outcome = "none"
    /\ download_button = "normal"
    /\ cancel_button = "disabled"
    /\ ui_queue = <<>>
    /\ to_post = <<>>

\* the pure-function specifications at rest
PlanIdle == plan_in = <<1, 1, 1, 1>> /\ plan_out = <<>> /\ plan_called = FALSE
GeomIdle ==
    /\ geom_in = <<NoInfo, 0>>
    /\ geom_out = [spec |-> <<0, 0, 0>>, tile |-> <<0, 0>>]
    /\ geom_called = FALSE
UrlIdle == norm_in = <<>> /\ norm_out = <<>>

Init ==
    /\ RunInit
    /\ PlanIdle
    /\ GeomIdle
    /\ UrlIdle

\* lines 266-279 of start_download: the run begins, the buttons change
\* (lines 273-274); the thread it starts reads the form (lines 342-346) and
\* has no locals yet
begin_run(flag) ==
    /\ is_downloading' = TRUE
    /\ cancel_flag' = flag
    /\ pc' = "fetch_info"
    /\ \E n \in 1..MaxWorkers : workers' = n
    /\ info' = NoInfo
    /\ tile' = <<0, 0, 0>>
    /\ urls' = <<>>
    /\ canvas' = new_canvas(0, 0)
    /\ writes' = new_canvas(0, 0)
    /\ downloaded' = 0
    /\ total' = 0
    /\ future' = <<>>
    /\ yielded' = <<>>
    /\ cur' = 0
    /\ pasted' = <<>>
    /\ tile_errors' = <<>>
    /\ exc' = "none"
    /\ broke' = FALSE
    /\ save_started' = FALSE
    /\ saved' = FALSE
    /\ outcome' = "none"
    /\ download_button' = "disabled"
    /\ cancel_button' = "normal"
    /\ UNCHANGED <<progress, pureVars, ui_queue, to_post>>

\* (mutant of StartDownload: line 270, cancel_flag = False, is missing)
StartDownloadKeepFlag ==
    \E valid \in BOOLEAN :
        IF ~valid \/ is_downloading
        THEN UNCHANGED vars
        ELSE begin_run(cancel_flag)

\* start_download, lines 260-279: nothing happens when validate_inputs
\* rejects the form (line 261) or a run is in progress (lines 263-265)
StartDownload ==
    \E valid \in BOOLEAN :
        IF ~valid \/ is_downloading
        THEN UNCHANGED vars
        ELSE begin_run(FALSE)

\* a click on "Download Image" (lines 126-127): a disabled button does not
\* run its command. The user clicks while fewer than MaxEnding threads of
\* earlier runs are still in lines 477-480.
ClickDownload ==
    /\ download_button = "normal"
    /\ Len(to_post) < MaxEnding
    /\ StartDownload

\* cancel_download, lines 281-284
CancelDownload ==
    /\ cancel_flag' = TRUE
    /\ UNCHANGED <<is_downloading, pc, workers, info, tile, urls, canvas, writes,
                   downloaded, total, future, yielded, cur, pasted, tile_errors,
                   exc, broke, save_started, saved, progress, outcome, pureVars, uiVars>>

\* a click on "Cancel" (lines 129-131)
ClickCancel ==
    /\ cancel_button = "normal"
    /\ CancelDownload

\* fetch_info_json, line 355: the request fails, or the server's JSON is returned
FetchInfo ==
    /\ pc = "fetch_info"
    /\ \/ /\ exc' = "descriptor"
          /\ pc' = "except"
          /\ UNCHANGED info
       \/ /\ \E d \in Descriptors : info' = d
          /\ pc' = "plan"
          /\ UNCHANGED exc
    /\ UNCHANGED <<is_downloading, cancel_flag, workers, tile, urls, canvas, writes,
                   downloaded, total, future, yielded, cur, pasted, tile_errors,
                   broke, save_started, saved, progress, outcome, pureVars, uiVars>>

\* lines 357-387: the sizes, the geometry, the regions, the canvas and the
\* counters. int() of line 357 or 358 raises; or build_region_urls (line 374)
\* never returns; or Image.new (line 380) raises ValueError for a negative
\* size; or the thread goes on to the pool with its canvas.
Plan ==
    /\ pc = "plan"
    /\ IF info.width = Absent \/ info.height = Absent
       THEN /\ exc' = "format"
            /\ pc' = "except"
            /\ UNCHANGED <<tile, urls, canvas, writes, downloaded, total, future>>
       ELSE \E c \in CustomInputs :
            \E t \in {tile_of(info, c)} :
                /\ tile' = t
                /\ IF never_returns(info.width, info.height, t[1], t[2])
                   THEN /\ pc' = "plan_loop"
                        /\ UNCHANGED <<urls, canvas, writes, downloaded, total,
                                       future, exc>>
                   ELSE /\ urls' = build_region_urls(info.width, info.height, t[1], t[2])
                        /\ IF info.width < 0 \/ info.height < 0
                           THEN /\ exc' = "canvas"
                                /\ pc' = "except"
                                /\ UNCHANGED <<canvas, writes, downloaded, total,
                                               future>>
                           ELSE /\ canvas' = new_canvas(info.width, info.height)
                                /\ writes' = new_canvas(info.width, info.height)
                                /\ downloaded' = 0
                                /\ total' = Len(urls')
                                /\ future' = [k \in 1..Len(urls') |->
                                                Fut("new", NoImage)]
                                /\ pc' = "submit"
                                /\ UNCHANGED exc
    /\ UNCHANGED <<is_downloading, cancel_flag, workers, info, yielded, cur, pasted,
                   tile_errors, broke, save_started, saved, progress, outcome,
                   pureVars, uiVars>>

\* build_region_urls in a loop that never ends: with width > 0 each round
\* appends to the list of line 239, until the append raises MemoryError;
\* with width <= 0 nothing is appended and the loop goes on for ever
OutOfMemory ==
    /\ pc = "plan_loop"
    /\ info.width > 0
    /\ exc' = "memory"
    /\ pc' = "except"
    /\ UNCHANGED <<is_downloading, cancel_flag, workers, info, tile, urls, canvas,
                   writes, downloaded, total, future, yielded, cur, pasted,
                   tile_errors, broke, save_started, saved, progress, outcome,
                   pureVars, uiVars>>

\* executor.submit of the next list entry, lines 393-394
Submit ==
    /\ pc = "submit"
    /\ IF Submitted = Indices
       THEN /\ pc' = "as_completed"
            /\ UNCHANGED future
       ELSE /\ LET k == CHOOSE k \in Indices \ Submitted :
                            \A j \in Indices \ Submitted : k <= j
               IN  future' = [future EXCEPT ![k].st = "queued"]
            /\ UNCHANGED pc
    /\ UNCHANGED <<is_downloading, cancel_flag, workers, info, tile, urls, canvas,
                   writes, downloaded, total, yielded, cur, pasted, tile_errors,
                   exc, broke, save_started, saved, progress, outcome, pureVars, uiVars>>

\* (mutant of MayStart: one thread per work item, no max_workers)
MayStartUnbounded(k) ==
    /\ k \in Queued
    /\ \A j \in Queued : k <= j

\* a pool thread takes the oldest work item when fewer than max_workers run
MayStart(k) ==
    /\ k \in Queued
    /\ \A j \in Queued : k <= j
    /\ Cardinality(InFlight) < workers

StartFetch ==
    /\ \E k \in Indices :
        /\ MayStart(k)
        /\ future' = [future EXCEPT ![k].st = "running"]
    /\ UNCHANGED <<is_downloading, cancel_flag, pc, workers, info, tile, urls,
                   canvas, writes, downloaded, total, yielded, cur, pasted,
                   tile_errors, exc, broke, save_started, saved, progress, outcome,
                   pureVars, uiVars>>

\* (mutant of FinishFetch: the pool thread composites the tile it fetched)
FinishFetchPasting ==
    /\ \E k \in InFlight :
        \E img \in Responses(urls[k]) :
            /\ future' = [future EXCEPT ![k] = Fut("image", img)]
            /\ canvas' = paste(canvas, crop(img, urls[k].w, urls[k].h),
                               urls[k].x, urls[k].y, TileColour(k))
    /\ UNCHANGED <<is_downloading, cancel_flag, pc, workers, info, tile, urls,
                   writes, downloaded, total, yielded, cur, pasted,
                   tile_errors, exc, broke, save_started, saved, progress, outcome,
                   pureVars, uiVars>>

\* download_one, lines 254-258, returns an image or raises
FinishFetch ==
    /\ \E k \in InFlight :
        \/ \E img \in Responses(urls[k]) : future' = [future EXCEPT ![k] = Fut("image", img)]
        \/ future' = [future EXCEPT ![k] = Fut("error", NoImage)]
    /\ UNCHANGED <<is_downloading, cancel_flag, pc, workers, info, tile, urls,
                   canvas, writes, downloaded, total, yielded, cur, pasted,
                   tile_errors, exc, broke, save_started, saved, progress, outcome,
                   pureVars, uiVars>>

\* as_completed, line 397: the next finished future, or the end of the loop
AsCompleted ==
    /\ pc = "as_completed"
    /\ IF Range(yielded) = Indices
       THEN /\ pc' = "shutdown"
            /\ UNCHANGED <<cur, yielded>>
       ELSE \E k \in Indices \ Range(yielded) :
            /\ Done(k)
            /\ cur' = k
            /\ yielded' = Append(yielded, k)
            /\ pc' = "check_cancel"
    /\ UNCHANGED <<is_downloading, cancel_flag, workers, info, tile, urls, canvas,
                   writes, downloaded, total, future, pasted, tile_errors, exc,
                   broke, save_started, saved, progress, outcome, pureVars, uiVars>>

\* (mutant of CheckCancel: the flag is not looked at)
CheckCancelIgnore ==
    /\ pc = "check_cancel"
    /\ pc' = "result"
    /\ UNCHANGED <<is_downloading, cancel_flag, workers, info, tile, urls, canvas,
                   writes, downloaded, total, future, yielded, cur, pasted,
                   tile_errors, exc, broke, save_started, saved, progress, outcome,
                   pureVars, uiVars>>

\* lines 398-400
CheckCancel ==
    /\ pc = "check_cancel"
    /\ IF cancel_flag
       THEN /\ broke' = TRUE
            /\ pc' = "shutdown"
       ELSE /\ pc' = "result"
            /\ UNCHANGED broke
    /\ UNCHANGED <<is_downloading, cancel_flag, workers, info, tile, urls, canvas,
                   writes, downloaded, total, future, yielded, cur, pasted,
                   tile_errors, exc, save_started, saved, progress, outcome,
                   pureVars, uiVars>>

\* the loop body, lines 402-426, for the future the loop holds
ProcessResult ==
    /\ pc = "result"
    /\ IF future[cur].st = "image"
       THEN /\ canvas' = composite(canvas, cur)
            /\ writes' = count_writes(writes, cur)
            /\ downloaded' = downloaded + 1
            /\ progress' = percent_of[total][downloaded + 1]
            /\ pasted' = Append(pasted, cur)
            /\ pc' = "as_completed"
            /\ UNCHANGED <<tile_errors, exc>>
       ELSE /\ tile_errors' = Append(tile_errors, cur)
            /\ IF abort_on_error(downloaded)
               THEN /\ exc' = "tile"
                    /\ pc' = "shutdown"
               ELSE /\ pc' = "as_completed"
                    /\ UNCHANGED exc
            /\ UNCHANGED <<canvas, writes, downloaded, progress, pasted>>
    /\ UNCHANGED <<is_downloading, cancel_flag, workers, info, tile, urls, total,
                   future, yielded, cur, broke, save_started, saved, outcome,
                   pureVars, uiVars>>

\* leaving `with ThreadPoolExecutor` (line 391) and `with Session` (line 383):
\* shutdown(wait=True) returns when every submitted work item has run
Shutdown ==
    /\ pc = "shutdown"
    /\ \A k \in Indices : Done(k)
    /\ pc' = IF exc # "none" THEN "except" ELSE "post_cancel"
    /\ UNCHANGED <<is_downloading, cancel_flag, workers, info, tile, urls, canvas,
                   writes, downloaded, total, future, yielded, cur, pasted,
                   tile_errors, exc, broke, save_started, saved, progress, outcome,
                   pureVars, uiVars>>

\* (mutant of PostCancel: the check of line 428 is missing)
PostCancelIgnore ==
    /\ pc = "post_cancel"
    /\ pc' = "save"
    /\ UNCHANGED <<is_downloading, cancel_flag, workers, info, tile, urls, canvas,
                   writes, downloaded, total, future, yielded, cur, pasted,
                   tile_errors, exc, broke, save_started, saved, progress, outcome,
                   pureVars, uiVars>>

\* lines 428-431
PostCancel ==
    /\ pc = "post_cancel"
    /\ IF cancel_flag
       THEN /\ outcome' = "cancelled"
            /\ pc' = "finally"
       ELSE /\ pc' = "save"
            /\ UNCHANGED outcome
    /\ UNCHANGED <<is_downloading, cancel_flag, workers, info, tile, urls, canvas,
                   writes, downloaded, total, future, yielded, cur, pasted,
                   tile_errors, exc, broke, save_started, saved, progress, pureVars, uiVars>>

\* lines 433-454: the file is written and "Download complete!" reported, or
\* the save raises
Save ==
    /\ pc = "save"
    /\ save_started' = TRUE
    /\ \/ /\ saved' = TRUE
          /\ outcome' = "succeeded"
          /\ pc' = "success"
          /\ UNCHANGED exc
       \/ /\ exc' = "encode"
          /\ pc' = "except"
          /\ UNCHANGED <<saved, outcome>>
    /\ UNCHANGED <<is_downloading, cancel_flag, workers, info, tile, urls, canvas,
                   writes, downloaded, total, future, yielded, cur, pasted,
                   tile_errors, broke, progress, pureVars, uiVars>>

\* lines 455-465: the bar is given 100 once the main loop has taken the
\* status of line 454; the log line and the message box follow
Success ==
    /\ pc = "success"
    /\ progress' = 100
    /\ pc' = "finally"
    /\ UNCHANGED <<is_downloading, cancel_flag, workers, info, tile, urls, canvas,
                   writes, downloaded, total, future, yielded, cur, pasted,
                   tile_errors, exc, broke, save_started, saved, outcome,
                   pureVars, uiVars>>

\* the handler, lines 467-473. With memory exhausted (MemoryError out of
\* build_region_urls, whose list the traceback still holds) a root.after of
\* the handler may raise in its turn: in line 468 or 469, before the failure
\* is reported, or in line 470, after it.
Except ==
    /\ pc = "except"
    /\ \/ /\ outcome' = "failed"
          /\ pc' = "finally"
       \/ /\ exc = "memory"
          /\ \E reported \in BOOLEAN :
                outcome' = IF reported THEN "failed" ELSE outcome
          /\ pc' = "raised"
    /\ UNCHANGED <<is_downloading, cancel_flag, workers, info, tile, urls, canvas,
                   writes, downloaded, total, future, yielded, cur, pasted,
                   tile_errors, exc, broke, save_started, saved, progress, pureVars, uiVars>>

\* line 476: is_downloading is reset; lines 477-480 are still to be run by
\* this thread, each when the main loop lets it. A thread whose handler has
\* raised has the memory still exhausted at line 477.
Finally ==
    /\ pc \in {"finally", "raised"}
    /\ is_downloading' = FALSE
    /\ pc' = "idle"
    /\ to_post' = Append(to_post,
                    IF pc = "raised" THEN <<"memory_error">>
                    ELSE <<"enable_download", "disable_cancel", "read_flag",
                           "reset_progress">>)
    /\ UNCHANGED <<cancel_flag, workers, info, tile, urls, canvas, writes,
                   downloaded, total, future, yielded, cur, pasted, tile_errors,
                   exc, broke, save_started, saved, progress, outcome, pureVars,
                   download_button, cancel_button, ui_queue>>

\* to_post without its i-th thread
ended(i) == SubSeq(to_post, 1, i - 1) \o SubSeq(to_post, i + 1, Len(to_post))

\* line 477 with memory exhausted: root.after raises MemoryError and the
\* thread ends, having given no callback to the main loop
RaiseInFinally ==
    /\ \E i \in DOMAIN to_post :
        /\ Head(to_post[i]) = "memory_error"
        /\ to_post' = ended(i)
    /\ UNCHANGED <<is_downloading, cancel_flag, pc, workers, info, tile, urls,
                   canvas, writes, downloaded, total, future, yielded, cur, pasted,
                   tile_errors, exc, broke, save_started, saved, progress, outcome,
                   pureVars, download_button, cancel_button, ui_queue>>

\* the root.after(0, ...) of line 477 or 478, by a thread that is ending
PostCallback ==
    /\ \E i \in DOMAIN to_post :
        /\ Head(to_post[i]) \in {"enable_download", "disable_cancel"}
        /\ ui_queue' = Append(ui_queue, Head(to_post[i]))
        /\ to_post' = [to_post EXCEPT ![i] = Tail(@)]
    /\ UNCHANGED <<is_downloading, cancel_flag, pc, workers, info, tile, urls,
                   canvas, writes, downloaded, total, future, yielded, cur, pasted,
                   tile_errors, exc, broke, save_started, saved, progress, outcome,
                   pureVars, download_button, cancel_button>>

\* line 479: the flag is read; if it is set the thread ends
ReadFlag ==
    /\ \E i \in DOMAIN to_post :
        /\ Head(to_post[i]) = "read_flag"
        /\ to_post' = IF cancel_flag THEN ended(i)
                      ELSE [to_post EXCEPT ![i] = Tail(@)]
    /\ UNCHANGED <<is_downloading, cancel_flag, pc, workers, info, tile, urls,
                   canvas, writes, downloaded, total, future, yielded, cur, pasted,
                   tile_errors, exc, broke, save_started, saved, progress, outcome,
                   pureVars, download_button, cancel_button, ui_queue>>

\* line 480: the bar is given 0, whatever the flag has become since line
\* 479; the thread ends
ResetProgress ==
    /\ \E i \in DOMAIN to_post :
        /\ Head(to_post[i]) = "reset_progress"
        /\ to_post' = ended(i)
    /\ progress' = 0
    /\ UNCHANGED <<is_downloading, cancel_flag, pc, workers, info, tile, urls,
                   canvas, writes, downloaded, total, future, yielded, cur, pasted,
                   tile_errors, exc, broke, save_started, saved, outcome,
                   pureVars, download_button, cancel_button, ui_queue>>

\* the main loop runs the oldest deferred callback: the lambda of line 477
\* or of line 478
RunCallback ==
    /\ ui_queue # <<>>
    /\ IF Head(ui_queue) = "enable_download"
       THEN download_button' = "normal" /\ UNCHANGED cancel_button
       ELSE cancel_button' = "disabled" /\ UNCHANGED download_button
    /\ ui_queue' = Tail(ui_queue)
    /\ UNCHANGED <<is_downloading, cancel_flag, pc, workers, info, tile, urls,
                   canvas, writes, downloaded, total, future, yielded, cur, pasted,
                   tile_errors, exc, broke, save_started, saved, progress, outcome,
                   pureVars, to_post>>

Next ==
    \/ ClickDownload
    \/ ClickCancel
    \/ FetchInfo
    \/ Plan
    \/ OutOfMemory
    \/ Submit
    \/ StartFetch
    \/ FinishFetch
    \/ AsCompleted
    \/ CheckCancel
    \/ ProcessResult
    \/ Shutdown
    \/ PostCancel
    \/ Save
    \/ Success
    \/ Except
    \/ Finally
    \/ RaiseInFinally
    \/ PostCallback
    \/ ReadFlag
    \/ ResetProgress
    \/ RunCallback

Spec == Init /\ [][Next]_vars

-----------------------------------------------------------------------------
(* SpecPlan: build_region_urls applied to every                             *)
(* <<width, height, tile_w, tile_h>> of PlanInputs.                         *)

PlanInputs ==
    ((1..MaxDim) \X (1..MaxDim) \X (1..MaxDim) \X (1..MaxDim))
        \cup {<<2000, 1500, DefaultTile, DefaultTile>>}

PlanInit ==
    /\ RunInit
    /\ GeomIdle
    /\ UrlIdle
    /\ plan_in \in PlanInputs
    /\ plan_out = <<>>
    /\ plan_called = FALSE

PlanCall ==
    /\ ~plan_called
    /\ plan_out' = build_region_urls(plan_in[1], plan_in[2], plan_in[3], plan_in[4])
    /\ plan_called' = TRUE
    /\ UNCHANGED <<plan_in, runVars, geomVars, urlVars>>

PlanNext == PlanCall

SpecPlan == PlanInit /\ [][PlanNext]_vars

-----------------------------------------------------------------------------
(* Properties of the region planner (SpecPlan).                             *)

Ceil(a, b) == (a + b - 1) \div b

\* two boxes share no pixel
Disjoint(a, b) ==
    \/ a.x + a.w <= b.x \/ b.x + b.w <= a.x
    \/ a.y + a.h <= b.y \/ b.y + b.h <= a.y

\* the boxes of rs tile [0, width) x [0, height): each is non-empty and inside,
\* no two overlap, and their areas add up to the rectangle's
Tiles(rs, width, height) ==
    /\ \A k \in DOMAIN rs :
        /\ rs[k].w >= 1 /\ rs[k].h >= 1
        /\ rs[k].x >= 0 /\ rs[k].x + rs[k].w <= width
        /\ rs[k].y >= 0 /\ rs[k].y + rs[k].h <= height
    /\ \A j, k \in DOMAIN rs : j # k => Disjoint(rs[j], rs[k])
    /\ SumOver([k \in DOMAIN rs |-> rs[k].w * rs[k].h], DOMAIN rs) = width * height

\* every pixel of the rectangle lies in exactly one box of rs
TilesPixelwise(rs, width, height) ==
    \A p \in (0..(width - 1)) \X (0..(height - 1)) :
        Cardinality({k \in DOMAIN rs : p \in box_area(rs[k])}) = 1

\* C1: for all width, height, tile_w, tile_h >= 1 the regions build_region_urls
\* returns are pairwise disjoint, their union is [0,width) x [0,height), each
\* has the extent min(tile size, distance to the image edge), and there are
\* ceil(width/tile_w) * ceil(height/tile_h) of them; 2000 x 1500 with 1024
\* gives the four regions of widths 1024, 976 and heights 1024, 476.
C1_RegionsTileTheImage ==
    plan_called =>
        LET width == plan_in[1]
            height == plan_in[2]
            tile_w == plan_in[3]
            tile_h == plan_in[4]
        IN  /\ Tiles(plan_out, width, height)
            /\ (width <= MaxDim + 1 /\ height <= MaxDim + 1)
                   => TilesPixelwise(plan_out, width, height)
            /\ \A k \in DOMAIN plan_out :
                /\ plan_out[k].w = Min(tile_w, width - plan_out[k].x)
                /\ plan_out[k].h = Min(tile_h, height - plan_out[k].y)
            /\ Len(plan_out) = Ceil(width, tile_w) * Ceil(height, tile_h)
            /\ plan_in = <<2000, 1500, 1024, 1024>> =>
                   plan_out = <<Box(0, 0, 1024, 1024), Box(1024, 0, 976, 1024),
                                Box(0, 1024, 1024, 476), Box(1024, 1024, 976, 476)>>

C1_Witness ==
    /\ plan_called
    /\ plan_in = <<2000, 1500, 1024, 1024>>
    /\ Len(plan_out) = 4

-----------------------------------------------------------------------------
(* Properties of the run (Spec).                                            *)

RunEnded == pc = "idle" /\ outcome # "none"

\* the box of region k is untouched: transparent and never written
Untouched(k) ==
    \A p \in box_area(urls[k]) : canvas[p] = Transparent /\ writes[p] = 0

\* region 1 (the first of the list) failed, the others succeeded, the flag was
\* never set in the run and the save, if reached, did not raise
Region0Scenario ==
    /\ RunEnded
    /\ total >= 2
    /\ future[1].st = "error"
    /\ \A k \in 2..total : future[k].st = "image"
    /\ ~cancel_flag
    /\ exc # "encode"

\* C2 as stated: with region 0 failed, the others fetched and no cancellation
\* the run saves its output, reports region 0 as failed and leaves its area
\* transparent, whatever the completion order.
C2_Original ==
    Region0Scenario =>
        /\ outcome = "succeeded" /\ saved
        /\ 1 \in Range(tile_errors)
        /\ Untouched(1)

\* C2 amended: in that scenario the run saves its output (region 0 logged as
\* failed, its area transparent, every other region composited) exactly when
\* the drain loop handled a success before region 0's failure; when region
\* 0's failure is the first result it handles, the run aborts as failed and
\* nothing is saved.
C2_PartialFailureUnlessFirst ==
    Region0Scenario =>
        /\ (outcome = "succeeded") <=> (yielded[1] # 1)
        /\ yielded[1] # 1 =>
            /\ saved
            /\ tile_errors = <<1>>
            /\ Untouched(1)
            /\ Range(pasted) = 2..total
        /\ yielded[1] = 1 =>
            /\ outcome = "failed" /\ exc = "tile"
            /\ ~save_started /\ ~saved

C2_Witness ==
    /\ Region0Scenario
    /\ total = 3
    /\ outcome = "succeeded"
    /\ tile_errors = <<1>>

\* C3: a tile failure the loop body handles aborts the run as failed exactly
\* when no tile has succeeded before it, which is exactly when it is the first
\* result handled in the run; a failure handled after a success is logged and
\* skipped, and the loop goes on.
C3_AbortIffNoSuccessBefore ==
    /\ [][(pc = "result" /\ pc' # "result" /\ future[cur].st = "error") =>
            /\ (exc' = "tile") <=> (downloaded = 0)
            /\ (downloaded = 0) <=> (yielded = <<cur>>)
            /\ (downloaded = 0) <=> (pasted = <<>> /\ tile_errors = <<>>)
            /\ downloaded = 0 => pc' = "shutdown"
            /\ downloaded > 0 =>
                /\ pc' = "as_completed" /\ exc' = "none"
                /\ tile_errors' = Append(tile_errors, cur)
                /\ canvas' = canvas /\ downloaded' = downloaded]_vars
    /\ [](exc = "tile" => /\ outcome \in {"none", "failed"}
                          /\ ~save_started
                          /\ RunEnded => outcome = "failed")

C3_Witness ==
    /\ RunEnded
    /\ exc = "tile"
    /\ outcome = "failed"
    /\ total = 3
    /\ yielded = <<2>>

\* C4: once cancel_download has set the flag while a run is in progress, the
\* outcome that run reports is "cancelled": never "failed", never "succeeded",
\* and no output file is saved.
C4_Original ==
    [][(is_downloading /\ cancel_flag /\ outcome = "none") =>
            /\ outcome' \in {"none", "cancelled"}
            /\ ~saved']_vars

\* the drain loop is between two results or looking at the flag
BetweenResults == pc \in {"as_completed", "check_cancel"}

\* C5: the flag is looked at once per drained result. With the flag set, the
\* loop body is not entered again, so the only result still composited is the
\* one whose iteration had passed the check already; and once the loop has
\* seen the flag (the break), no result is accepted and neither the canvas nor
\* downloaded changes any more in that run, though requests still complete.
C5_NoCompositeAfterObservedCancel ==
    /\ [][(is_downloading /\ cancel_flag) =>
            /\ cancel_flag'
            /\ BetweenResults => pc' # "result"
            /\ pasted' # pasted =>
                /\ pc = "result" /\ pc' = "as_completed"
                /\ pasted' = Append(pasted, cur)]_vars
    /\ [][(broke /\ is_downloading) =>
            /\ broke'
            /\ canvas' = canvas /\ writes' = writes /\ downloaded' = downloaded
            /\ pasted' = pasted /\ yielded' = yielded /\ cur' = cur
            /\ pc' \notin {"as_completed", "check_cancel", "result"}]_vars
    /\ [](pc = "check_cancel" => cur = yielded[Len(yielded)])

C5_Witness ==
    /\ broke
    /\ pc = "shutdown"
    /\ cancel_flag
    /\ pasted # <<>>
    /\ InFlight # {}

NoDuplicates(sq) == \A i, j \in 1..Len(sq) : i # j => sq[i] # sq[j]

\* the for loop of line 397 ran to its end: no break, no re-raised failure
LoopExhausted ==
    /\ pc \in {"shutdown", "post_cancel", "save", "success", "except", "finally", "idle"}
    /\ urls # <<>>
    /\ ~broke
    /\ exc \notin {"descriptor", "tile"}

\* C6: in a run every region's result is drained at most once and composited
\* at most once; when the drain loop ends without cancellation or abort every
\* region was composited once or logged as failed once (composited + failed =
\* total); a run without failures has written every canvas pixel exactly
\* once; the area of every failed region holds its initial transparent value.
C6_EachRegionOnce ==
    /\ NoDuplicates(yielded) /\ NoDuplicates(pasted) /\ NoDuplicates(tile_errors)
    /\ Range(pasted) \cap Range(tile_errors) = {}
    /\ Range(pasted) \cup Range(tile_errors) \subseteq Range(yielded)
    /\ downloaded = Len(pasted)
    /\ \A k \in Range(tile_errors) : Untouched(k)
    /\ \A k \in Range(pasted) : \A p \in box_area(urls[k]) :
            canvas[p] = TileColour(k) /\ writes[p] = 1
    /\ LoopExhausted =>
        /\ Range(pasted) \cup Range(tile_errors) = Indices
        /\ Len(pasted) + Len(tile_errors) = total
        /\ tile_errors = <<>> => \A p \in DOMAIN writes : writes[p] = 1

C6_Witness ==
    /\ LoopExhausted
    /\ pc = "save"
    /\ total = 3
    /\ Len(pasted) = 2
    /\ Len(tile_errors) = 1
    /\ \E k \in Indices : future[k].img.w > urls[k].w

\* the fetch phase is over: every region was submitted, every fetch has
\* finished, and the drain loop has yielded every result without a break
FetchPhaseOver ==
    /\ \A k \in Indices : Done(k)
    /\ Submitted = Indices
    /\ Range(yielded) = Indices
    /\ ~broke

\* C7: the save step is entered only after the fetch phase is over (every
\* submitted fetch has finished, the drain loop has ended); a run that fails
\* on the descriptor (the request, its format, the planning or the canvas)
\* or on a tile abort, and a run whose drain loop saw the flag, never starts
\* the save, writes no file and does not report success.
C7_SaveOnlyAfterFetchPhase ==
    /\ pc = "save" => (FetchPhaseOver /\ exc = "none")
    /\ save_started => (FetchPhaseOver /\ exc \in {"none", "encode"})
    /\ saved => (save_started /\ exc = "none")
    /\ (exc \notin {"none", "encode"} \/ broke) =>
        /\ ~save_started /\ ~saved
        /\ pc \notin {"save", "success"}
        /\ outcome # "succeeded"

C7_Witness ==
    /\ RunEnded
    /\ broke
    /\ outcome = "cancelled"
    /\ ~save_started
    /\ pasted # <<>>

\* C8: at every moment at most `workers` tile requests are in flight, though
\* all regions are submitted up front; a queued request starts only when
\* fewer than `workers` are running.
C8_InFlightWithinBudget ==
    /\ [](Cardinality(InFlight) <= workers)
    /\ [](pc \notin {"idle", "fetch_info"} \/ RunEnded => workers \in 1..16)
    /\ [](pc \in {"as_completed", "check_cancel", "result"} => Submitted = Indices)
    /\ [][\A k \in DOMAIN future :
            (future[k].st = "queued" /\ k \in DOMAIN future'
                /\ future'[k].st = "running")
            => Cardinality(InFlight) < workers]_vars

C8_Witness ==
    /\ pc = "as_completed"
    /\ workers = 2
    /\ Cardinality(InFlight) = 2
    /\ Queued # {}

\* C9: the canvas and downloaded are mutated by the drain loop of
\* download_image alone: a step that changes them (after line 380 made the
\* canvas) is a step of the loop body on the result it holds, and is no step
\* of a pool thread (no future changes) or of a UI handler (no flag changes).
C9_SingleMutator ==
    [][((canvas' # canvas \/ writes' # writes \/ downloaded' # downloaded)
            /\ pc \notin {"idle", "plan"}) =>
            /\ pc = "result" /\ pc' = "as_completed"
            /\ future[cur].st = "image"
            /\ canvas' = composite(canvas, cur)
            /\ downloaded' = downloaded + 1
            /\ future' = future
            /\ cancel_flag' = cancel_flag /\ is_downloading' = is_downloading]_vars

C9_Witness ==
    /\ pc = "as_completed"
    /\ downloaded = 1
    /\ InFlight # {}
    /\ \E p \in DOMAIN canvas : canvas[p] # Transparent

\* the canvas of a run whose tiles all arrived: each pixel has the colour of
\* the tile of the region it lies in
ExpectedCanvas ==
    [p \in (0..(info.width - 1)) \X (0..(info.height - 1)) |->
        TileColour(CHOOSE k \in Indices :
            /\ p \in box_area(urls[k])
            /\ \A j \in Indices : p \in box_area(urls[j]) => k <= j)]

AllFetched == urls # <<>> /\ \A k \in Indices : future[k].st = "image"

\* C10: when every fetch succeeds, with fixed tile contents, and the flag is
\* never set, the final canvas and the reported outcome are the same for
\* every order in which the pool completes the fetches.
C10_OrderIndependent ==
    (AllFetched /\ ~cancel_flag
        /\ pc \in {"save", "success", "except", "finally", "idle"}) =>
        /\ canvas = ExpectedCanvas
        /\ Range(pasted) = Indices
        /\ tile_errors = <<>>
        /\ RunEnded => outcome = (IF exc = "encode" THEN "failed" ELSE "succeeded")
        /\ RunEnded /\ outcome = "succeeded" => saved

C10_Witness ==
    /\ RunEnded
    /\ AllFetched
    /\ ~cancel_flag
    /\ outcome = "succeeded"
    /\ pasted = <<3, 1, 2>>

\* C11: after the drain loop has seen the flag, no tile request that had not
\* been started is issued: the run only waits for the requests in flight.
C11_Original ==
    [][(broke /\ is_downloading) =>
            \A k \in DOMAIN future :
                future[k].st = "queued" =>
                    (k \in DOMAIN future' /\ future'[k].st = "queued")]_vars

-----------------------------------------------------------------------------
(* SpecGeom: get_tile_spec and respect_max_area applied to the descriptors  *)
(* and tile-size preferences of GeomInputs.                                 *)

MaxTile == 4         \* advertised tile sides of SpecGeom are -2, 0, 1..MaxTile
MaxArea == 6         \* maxArea of SpecGeom is 0 (absent), 1..MaxArea

SideInputs == {0 - 2, 0} \cup (1..MaxTile)

\* one advertised spec, with every mix of present, absent and malformed keys
FullSpecs ==
    {TileSpec(w, tw, h, th, o, sfs) :
        w \in SideInputs, tw \in {0, 3}, h \in SideInputs, th \in {0, 2},
        o \in {0 - 1, 0, 1}, sfs \in {{}, {1}}}

\* specs for the lists of several: told apart by their width and overlap
PickSpecs ==
    {TileSpec(w, 0, 0, 0, w - 2, sfs) : w \in {2, 3}, sfs \in {{}, {1}, {2, 4}}}

GeomTiles ==
    {<<>>} \cup {<<sp>> : sp \in FullSpecs}
           \cup {<<a, b>> : a \in PickSpecs, b \in PickSpecs}
           \cup {<<a, b, c>> : a \in PickSpecs, b \in PickSpecs, c \in PickSpecs}

GeomInputs ==
    {<<Info(1, 1, ts, m), c>> : ts \in GeomTiles, m \in 0..MaxArea, c \in CustomInputs}
        \cup {<<Info(1, 1, <<TileSpec(15, 0, 15, 0, 0, {1})>>, 169), 0>>}

GeomInit ==
    /\ RunInit
    /\ PlanIdle
    /\ UrlIdle
    /\ geom_in \in GeomInputs
    /\ geom_out = [spec |-> <<0, 0, 0>>, tile |-> <<0, 0>>]
    /\ geom_called = FALSE

\* lines 364-365
GeomCall ==
    /\ ~geom_called
    /\ LET ts == get_tile_spec(geom_in[1], geom_in[2])
       IN  geom_out' = [spec |-> ts,
                        tile |-> respect_max_area(geom_in[1], ts[1], ts[2])]
    /\ geom_called' = TRUE
    /\ UNCHANGED <<geom_in, runVars, planVars, urlVars>>

GeomNext == GeomCall

SpecGeom == GeomInit /\ [][GeomNext]_vars

\* floor(t * sqrt(max_area / area)) of the claim, in exact arithmetic: the
\* largest k with k*k*area <= t*t*max_area, for t >= 0
ExactFloor(t, max_area, area) ==
    CHOOSE k \in 0..t :
        /\ k * k * area <= t * t * max_area
        /\ (k + 1) * (k + 1) * area > t * t * max_area

\* C12: for tile_w, tile_h >= 1 and maxArea >= 1 with tile_w * tile_h >
\* maxArea, respect_max_area returns max(1, floor(tile_w * s)) and
\* max(1, floor(tile_h * s)) with s = sqrt(maxArea / (tile_w * tile_h)), and
\* their product is <= maxArea; with maxArea absent or tile_w * tile_h <=
\* maxArea both dimensions come back unchanged.
C12_Original ==
    geom_called =>
        LET tile_w == geom_out.spec[1]
            tile_h == geom_out.spec[2]
            maxArea == geom_in[1].maxArea
            r == geom_out.tile
        IN  (tile_w >= 1 /\ tile_h >= 1) =>
              /\ (maxArea >= 1 /\ tile_w * tile_h > maxArea) =>
                    /\ r[1] = Max(1, ExactFloor(tile_w, maxArea, tile_w * tile_h))
                    /\ r[2] = Max(1, ExactFloor(tile_h, maxArea, tile_w * tile_h))
                    /\ r[1] * r[2] <= maxArea
              /\ (maxArea = 0 \/ tile_w * tile_h <= maxArea) => r = <<tile_w, tile_h>>

\* C13: for every descriptor with valid width and height and any advertised
\* tile specs (keys absent, zero or negative included), get_tile_spec followed
\* by respect_max_area yields a tile width >= 1 and a tile height >= 1.
C13_Original ==
    (geom_called /\ Len(geom_in[1].tiles) > 0) =>
        /\ geom_out.tile[1] >= 1
        /\ geom_out.tile[2] >= 1

\* the index get_tile_spec is to choose: the first spec whose scale factors
\* hold 1, or 1 when no spec does
IsChoice(tiles, k) ==
    \/ /\ 1 \in tiles[k].scaleFactors
       /\ \A j \in 1..(k - 1) : 1 \notin tiles[j].scaleFactors
    \/ /\ k = 1
       /\ \A j \in 1..Len(tiles) : 1 \notin tiles[j].scaleFactors

\* C16: with tile specs advertised, get_tile_spec takes its numbers from the
\* first spec whose scale factors hold 1, or from the first spec when none
\* does, and not from the user's preference; with none advertised, width and
\* height are the user's explicit size if given, else 1024, and overlap is 0.
C16_TileSpecChoice ==
    geom_called =>
        LET tiles == geom_in[1].tiles
            custom == geom_in[2]
            r == geom_out.spec
        IN  IF Len(tiles) > 0
            THEN \E k \in 1..Len(tiles) :
                    /\ IsChoice(tiles, k)
                    /\ r[1] = (IF tiles[k].width # 0 THEN tiles[k].width
                               ELSE IF tiles[k].tileWidth # 0 THEN tiles[k].tileWidth
                               ELSE 512)
                    /\ r[2] = (IF tiles[k].height # 0 THEN tiles[k].height
                               ELSE IF tiles[k].tileHeight # 0 THEN tiles[k].tileHeight
                               ELSE r[1])
                    /\ r[3] = tiles[k].overlap
            ELSE r = (IF custom # 0 THEN <<custom, custom, 0>> ELSE <<1024, 1024, 0>>)

C16_Witness ==
    /\ geom_called
    /\ Len(geom_in[1].tiles) = 3
    /\ geom_in[2] = MinCustom
    /\ 1 \notin geom_in[1].tiles[1].scaleFactors
    /\ 1 \in geom_in[1].tiles[2].scaleFactors
    /\ 1 \in geom_in[1].tiles[3].scaleFactors
    /\ geom_in[1].tiles[1].width = 2
    /\ geom_in[1].tiles[2].width = 3
    /\ geom_in[1].tiles[3].width = 2
    /\ geom_out.spec = <<3, 3, 1>>

-----------------------------------------------------------------------------
(* SpecUrl: normalize_url applied to a URL and again to its own result.     *)
(* A URL is a sequence of tokens: "a" is any run of characters other than   *)
(* '/', '?', '#', and "info.json" is that file name.                        *)

MaxUrlLen == 4       \* URLs of SpecUrl have up to MaxUrlLen tokens
MaxCalls == 2        \* normalize_url is applied up to MaxCalls times in a row

UrlTokens == {"a", "/", "?", "#", "info.json"}

Urls == UNION {[1..n -> UrlTokens] : n \in 0..MaxUrlLen}

\* line 181, re.split(r'[?#]', url)[0]: the part before the first '?' or '#'
before_query(url) ==
    LET marks == {k \in 1..Len(url) : url[k] \in {"?", "#"}}
    IN  IF marks = {} THEN url
        ELSE SubSeq(url, 1, (CHOOSE k \in marks : \A j \in marks : k <= j) - 1)

\* lines 183-184: one '/info.json' suffix is removed
strip_info_json(url) ==
    IF Len(url) >= 2 /\ url[Len(url) - 1] = "/" /\ url[Len(url)] = "info.json"
    THEN SubSeq(url, 1, Len(url) - 2)
    ELSE url

\* line 185, url.rstrip('/'): every trailing '/' is removed
RECURSIVE rstrip_slash(_)
rstrip_slash(url) ==
    IF Len(url) > 0 /\ url[Len(url)] = "/"
    THEN rstrip_slash(SubSeq(url, 1, Len(url) - 1))
    ELSE url

\* normalize_url, lines 180-185
normalize_url(url) == rstrip_slash(strip_info_json(before_query(url)))

UrlInit ==
    /\ RunInit
    /\ PlanIdle
    /\ GeomIdle
    /\ norm_in \in Urls
    /\ norm_out = <<>>

\* normalize_url called on the input, then on the result of the call before
NormalizeCall ==
    /\ Len(norm_out) < MaxCalls
    /\ norm_out' = Append(norm_out,
                          normalize_url(IF norm_out = <<>> THEN norm_in
                                        ELSE norm_out[Len(norm_out)]))
    /\ UNCHANGED <<norm_in, runVars, planVars, geomVars>>

UrlNext == NormalizeCall

SpecUrl == UrlInit /\ [][UrlNext]_vars

\* C15: normalize_url is idempotent: applied to its own result it returns
\* that result, for every URL, however query strings, fragments,
\* '/info.json' suffixes and trailing '/' are combined and repeated.
C15_Original ==
    Len(norm_out) >= 2 => norm_out[2] = norm_out[1]

-----------------------------------------------------------------------------
(* SpecFair: Spec with the scheduling the claims about termination assume.  *)
(* The download_image thread and the pool threads are operating-system      *)
(* threads, each of which runs when it can; every request returns or times  *)
(* out (timeout=30, line 189; timeout=60, line 255). The handler of line    *)
(* 467 is not among the fair steps when memory is exhausted: the thread may  *)
(* stay in line 468 without end.                                             *)

ThreadStep ==
    \/ FetchInfo
    \/ Plan
    \/ OutOfMemory
    \/ Submit
    \/ AsCompleted
    \/ CheckCancel
    \/ ProcessResult
    \/ Shutdown
    \/ PostCancel
    \/ Save
    \/ Success
    \/ (exc # "memory" /\ Except)
    \/ Finally
    \/ RaiseInFinally
    \/ PostCallback
    \/ ReadFlag
    \/ ResetProgress

PoolStep == StartFetch \/ FinishFetch

SpecFair == Init /\ [][Next]_vars /\ WF_vars(ThreadStep) /\ WF_vars(PoolStep)

-----------------------------------------------------------------------------
(* Claims about the run: C14, C17, C18, C19, C20, C21.                      *)

\* width or height is missing or is not coercible to a positive integer
Unsized(inf) ==
    \/ inf.width = Absent
    \/ inf.height = Absent
    \/ inf.width < 1
    \/ inf.height < 1

\* C14: when the descriptor's width or height is missing or not coercible to
\* a positive integer (zero and negative included), the run fails before any
\* tile work: it gets no further than the planning step, plans no region,
\* creates no canvas, issues no request, starts no save, and ends "failed".
C14_Original ==
    (Unsized(info) /\ info # NoInfo) =>
        /\ pc \in {"plan", "except", "finally", "idle"}
        /\ urls = <<>>
        /\ future = <<>>
        /\ ~save_started
        /\ ~saved
        /\ outcome \in {"none", "failed"}

\* C17: in every state 0 <= downloaded <= total and the progress value is in
\* 0..100; each value the drain loop emits is at most the percentage of the
\* regions composited so far and less than 2 below it, is not below the
\* value the bar had, and is 100 exactly when every region has succeeded; a
\* step brings the bar to 100 only then, or at line 455 with the output
\* saved and success reported.
C17_ProgressInRange ==
    /\ 0 <= downloaded
    /\ downloaded <= total
    /\ downloaded = Len(pasted)
    /\ progress \in 0..100

C17_ProgressSteps ==
    [][/\ (pc = "result" /\ pasted' # pasted) =>
            /\ downloaded' = downloaded + 1
            /\ progress' * total <= downloaded' * 100
            /\ (progress' + 2) * total > downloaded' * 100
            /\ (downloaded > 0 => progress' >= progress)
            /\ (progress' = 100 <=> downloaded' = total)
       /\ (progress' # progress /\ progress' = 100) =>
            \/ pc = "result" /\ downloaded' = total
            \/ pc = "success" /\ saved /\ outcome = "succeeded"]_vars

C17_Progress == [](C17_ProgressInRange) /\ C17_ProgressSteps

C17_Witness ==
    /\ pc = "as_completed"
    /\ total = 3
    /\ downloaded = 2
    /\ progress = 66
    /\ tile_errors # <<>>

\* C18: a cancellation requested during or after one run does not reach a
\* later run. The step that starts a run leaves the flag clear, the flag
\* becomes set only by a step that changes nothing else (cancel_download),
\* and a run whose loop broke or that ended "cancelled" has the flag set.
C18_CancelStaysInItsRun ==
    [][/\ (~is_downloading /\ is_downloading') =>
            (~cancel_flag' /\ ~broke' /\ pc' = "fetch_info" /\ outcome' = "none")
       /\ (~cancel_flag /\ cancel_flag') =>
            (pc' = pc /\ is_downloading' = is_downloading /\ broke' = broke
                /\ outcome' = outcome /\ future' = future)
       /\ (broke' => cancel_flag')
       /\ ((outcome' = "cancelled" /\ is_downloading') => cancel_flag')]_vars

\* a run that follows a cancelled one has passed the check of line 398 with
\* the flag clear (progress is left over from the run before)
C18_Witness ==
    /\ pc = "result"
    /\ downloaded = 0
    /\ progress \notin {0, 100}
    /\ ~cancel_flag
    /\ ~broke

\* C19: every started run eventually ends with one outcome (succeeded,
\* cancelled or failed) and is_downloading reset, under fair scheduling.
C19_Original ==
    [](is_downloading =>
        <>(~is_downloading /\ outcome \in {"succeeded", "cancelled", "failed"}))

\* the download_image threads that have not ended: the one of the run in
\* progress and those past line 476
LiveThreads == (IF pc # "idle" THEN 1 ELSE 0) + Len(to_post)

\* C20: at most one download_image worker thread is executing at any time.
C20_Original == LiveThreads <= 1

\* C21: whenever a run is in progress and every deferred UI callback has
\* been made and run, the Cancel button is enabled and the Download button
\* is disabled.
C21_Original ==
    (is_downloading /\ ui_queue = <<>> /\ to_post = <<>>) =>
        (cancel_button = "normal" /\ download_button = "disabled")

=============================================================================
